---- MODULE Spec2Model ----
(***************************************************************************)
(* A model of include/fixed-point.hpp: the width/sign resolver             *)
(* (byte_pow2_ceil, int_b), the shift primitives (rshift, lshift), the     *)
(* fixed-point value fp::t with its conversions, and fp::from_int.         *)
(*                                                                         *)
(* Machine integers are bit vectors (functions from bit positions 0..w-1   *)
(* to {0,1}), so that 32- and 64-bit words keep their width: wrap-around   *)
(* of a shift and truncation on return are computed, not assumed.          *)
(* The data model is LP64 (g++/clang on Linux): int is 32 bits, long and   *)
(* std::size_t are 64 bits.                                                *)
(***************************************************************************)
EXTENDS Integers, Sequences, FiniteSets, TLC

VARIABLES
  rpc,      \* resolver: "idle", "loop" (inside the while), "done" (returned c),
            \* "done_indeterminate" (returned, the result indeterminate)
  rx,       \* resolver: the argument x of the running / last call
  rc,       \* resolver: the local c (std::size_t)
  riter,    \* resolver: parity of the number of loop bodies executed
  rprev,    \* resolver: argument and result of the call completed before
  shape,    \* the outcome of naming the type fp::t<B, I, S>
  internal, \* the stored integer of a value of that type (or NoValue)
  conv,     \* the outcome of the last conversion applied to the value
  fp_nostr, \* the build switch FP_NOSTR: TRUE when text support is compiled out
  call,     \* shift primitives: the last call (operation, amount, operand)
  out,      \* shift primitives: what the call returned
  prim      \* shift primitives: the built-in shift the call executed

vars == <<rpc, rx, rc, riter, rprev, shape, internal, conv, fp_nostr, call, out, prim>>
resolverVars == <<rpc, rx, rc, riter, rprev>>
shapeVars == <<shape, internal, conv, fp_nostr>>
shiftVars == <<call, out, prim>>

----------------------------------------------------------------------------
(* Bit vectors *)

RECURSIVE Pow2(_)
Pow2(n) == IF n = 0 THEN 1 ELSE 2 * Pow2(n - 1)

Width(b) == Cardinality(DOMAIN b)

\* The function f itself, enumerated once (TLC otherwise re-evaluates the
\* expression that defines f at every application).
Seal(f) == f @@ <<>>

\* Bit i of b, reading 0 above its width (zero extension).
BitAt(b, i) == IF i \in DOMAIN b THEN b[i] ELSE 0

\* The w-bit two's complement pattern of the integer n (|n| < 2^31): bits
\* 0..30 are computed, above that the sign repeats.
FromInt(n, w) ==
  Seal([i \in 0..(w - 1) |->
          IF i < 31 THEN (n \div Pow2(i)) % 2 ELSE IF n < 0 THEN 1 ELSE 0])

Zero(w) == Seal([i \in 0..(w - 1) |-> 0])
Ones(w) == Seal([i \in 0..(w - 1) |-> 1])
\* 2^i as a w-bit pattern.
OneHot(w, i) == Seal([j \in 0..(w - 1) |-> IF j = i THEN 1 ELSE 0])
BitOr(a, b) == Seal([i \in DOMAIN a |-> IF a[i] = 1 \/ BitAt(b, i) = 1 THEN 1 ELSE 0])

\* std::bit_width: 0 for zero, else one more than the highest set position.
BitWidth(b) ==
  IF \A i \in DOMAIN b : b[i] = 0 THEN 0
  ELSE 1 + (CHOOSE i \in DOMAIN b : b[i] = 1 /\ \A j \in DOMAIN b : j > i => b[j] = 0)

RECURSIVE SumBits(_, _)
SumBits(b, i) == IF i < 0 THEN 0 ELSE b[i] * Pow2(i) + SumBits(b, i - 1)

\* The unsigned value of a pattern that needs fewer than 31 bits.
UVal(b) == SumBits(b, BitWidth(b) - 1)

\* The signed (two's complement) value of a pattern of at most 16 bits.
SVal(b) == UVal(b) - (IF b[Width(b) - 1] = 1 THEN Pow2(Width(b)) ELSE 0)

\* a < b as unsigned numbers (the widths may differ).
ULess(a, b) ==
  \E i \in DOMAIN b :
    /\ b[i] = 1 /\ BitAt(a, i) = 0
    /\ \A j \in (DOMAIN a) \cup (DOMAIN b) : j > i => BitAt(a, j) = BitAt(b, j)

\* The built-in << on a w-bit word: the bits that leave the word are lost.
ShiftLeft(b, k) == Seal([i \in DOMAIN b |-> IF i >= k THEN b[i - k] ELSE 0])

\* The built-in >> on a w-bit word; fill is the bit shifted in at the top.
ShiftRight(b, k, fill) ==
  Seal([i \in DOMAIN b |-> IF i + k \in DOMAIN b THEN b[i + k] ELSE fill])

\* Conversion between integer types: truncate, or extend with the sign bit
\* of a signed source and with 0 for an unsigned one.
Resize(b, signed, w) ==
  Seal([i \in 0..(w - 1) |->
          IF i \in DOMAIN b THEN b[i] ELSE IF signed THEN b[Width(b) - 1] ELSE 0])

----------------------------------------------------------------------------
(* Integer types and typed constants *)

UInt(w) == [w |-> w, signed |-> FALSE]
SInt(w) == [w |-> w, signed |-> TRUE]
SizeT == UInt(64)
UnsignedInt == UInt(32)
PlainInt == SInt(32)

Const(ty, b) == [ty |-> ty, bits |-> b]

\* std::unsigned_integral / std::signed_integral of a constant's type.
unsigned_integral(a) == ~a.ty.signed
signed_integral(a) == a.ty.signed

----------------------------------------------------------------------------
(* byte_pow2_ceil *)

CHAR_BIT == 8

LoopCond_ge(x, c) == ~ULess(x.bits, c)

\* while (x > c): the comparison is made in the common unsigned type.
LoopCond(x, c) == ULess(c, x.bits)

\* c <<= 1U on a std::size_t.
LoopBody(c) == ShiftLeft(c, 1)

InitialCandidate == FromInt(CHAR_BIT, SizeT.w)

\* The loop from candidate c: the value it leaves with, or "undefined" when
\* it cannot leave (the candidate has wrapped to 0 and x > 0, so the loop
\* state repeats). A loop without side effects that never ends is undefined
\* behaviour.
RECURSIVE ceil_loop(_, _)
ceil_loop(x, c) ==
  IF ~LoopCond(x, c) THEN [tag |-> "returns", value |-> Const(SizeT, c)]
  ELSE IF LoopBody(c) = c THEN [tag |-> "undefined"]
  ELSE ceil_loop(x, LoopBody(c))

\* What a build hands back when it takes the loop to end although it cannot
\* (g++ -O2 and above): no value is computed. Each use the caller makes of
\* the result is folded by itself from what holds at a loop exit (r >= x, r
\* a multiple of 8, r # 0), and no 64-bit pattern need satisfy them together:
\* the result is no pattern but an indeterminate value.
Indeterminate == [tag |-> "indeterminate"]

\* The call at run time: the set of its outcomes. Where the loop cannot
\* leave, the call never returns (g++ -O0, -O1, or a use that needs the
\* whole value) or returns the indeterminate value.
byte_pow2_ceil(x) ==
  IF ~unsigned_integral(x) THEN { [tag |-> "ill-formed"] }
  ELSE IF ceil_loop(x, InitialCandidate).tag = "returns" THEN { ceil_loop(x, InitialCandidate) }
  ELSE { [tag |-> "diverges"], [tag |-> "returns", value |-> Indeterminate] }

\* The call as a constant expression (a template argument): its value, and
\* no constant, so an ill-formed program, where the evaluation is undefined.
byte_pow2_ceil_constant(x) ==
  IF Cardinality(byte_pow2_ceil(x)) = 1 THEN CHOOSE r \in byte_pow2_ceil(x) : TRUE
  ELSE [tag |-> "ill-formed"]

\* Arguments the resolver is called with: every request up to MaxRequest,
\* and patterns near the top of each unsigned type.
MaxRequest == 66

WideArgs ==
  { Const(UInt(64), OneHot(64, 63)),
    Const(UInt(64), BitOr(OneHot(64, 63), OneHot(64, 0))),
    Const(UInt(64), Ones(64)),
    Const(UInt(64), BitOr(OneHot(64, 62), OneHot(64, 0))),
    Const(UInt(32), Ones(32)),
    Const(UInt(16), Ones(16)),
    Const(UInt(8), FromInt(200, 8)) }

ResolverArgs == { Const(UnsignedInt, FromInt(n, 32)) : n \in 0..MaxRequest } \cup WideArgs

NoCall == [tag |-> "none"]

ResolverInit ==
  /\ rpc = "idle"
  /\ rx = Const(UnsignedInt, Zero(32))
  /\ rc = InitialCandidate
  /\ riter = 0
  /\ rprev = NoCall

\* Entry: std::size_t c = CHAR_BIT.
ResolveCall(x) ==
  /\ rpc \in {"idle", "done", "done_indeterminate"}
  /\ unsigned_integral(x)
  /\ rpc' = "loop"
  /\ rx' = x
  /\ rc' = InitialCandidate
  /\ riter' = 0
  /\ rprev' = IF rpc = "done" THEN [tag |-> "call", x |-> rx, r |-> rc] ELSE rprev
  /\ UNCHANGED <<shapeVars, shiftVars>>

\* One turn of the while loop.
ResolveStep ==
  /\ rpc = "loop"
  /\ LoopCond(rx, rc)
  /\ rc' = LoopBody(rc)
  /\ riter' = 1 - riter
  /\ UNCHANGED <<rpc, rx, rprev, shapeVars, shiftVars>>

\* The loop condition fails: return c.
ResolveReturn ==
  /\ rpc = "loop"
  /\ ~LoopCond(rx, rc)
  /\ rpc' = "done"
  /\ UNCHANGED <<rx, rc, riter, rprev, shapeVars, shiftVars>>

\* The loop that cannot leave (the state ceil_loop calls undefined), in a
\* build that takes every loop without side effects to end: the call
\* returns, its result indeterminate. The turns before it have no side
\* effects, so when the build leaves is not observable.
ResolveUndefined ==
  /\ rpc = "loop"
  /\ LoopCond(rx, rc) /\ LoopBody(rc) = rc
  /\ rpc' = "done_indeterminate"
  /\ UNCHANGED <<rx, rc, riter, rprev, shapeVars, shiftVars>>

ResolverNext ==
  \/ \E x \in ResolverArgs : ResolveCall(x)
  \/ ResolveStep
  \/ ResolveReturn
  \/ ResolveUndefined

----------------------------------------------------------------------------
(* The storage kinds: s_int_struct, u_int_struct, int_b *)

IllFormed == [tag |-> "ill-formed"]
None == [tag |-> "none"]

\* The concepts that constrain fp::t's template parameters.
\* S is a type: `signed` is int, `unsigned` is unsigned int.
valid_sign(S) == S = PlainInt \/ S = UnsignedInt

MAKEINT_wider == {8, 16, 32, 64, 128}

\* MAKEINT(8) .. MAKEINT(64): the explicit specialisations, for the template
\* arguments 8U, 16U, 32U, 64U. An `auto` template argument carries its type:
\* the same number with another type (std::size_t 8) names the primary
\* template, which has no member `type`.
MAKEINT == {8, 16, 32, 64}

Specialised(B) == B.ty = UnsignedInt /\ BitWidth(B.bits) <= 30 /\ UVal(B.bits) \in MAKEINT

s_int_struct(B) ==
  IF Specialised(B) THEN [tag |-> "type", type |-> SInt(UVal(B.bits))] ELSE [tag |-> "empty"]
u_int_struct(B) ==
  IF Specialised(B) THEN [tag |-> "type", type |-> UInt(UVal(B.bits))] ELSE [tag |-> "empty"]

\* typename s_int_struct<B>::type
s_int(B) == IF s_int_struct(B).tag = "type" THEN s_int_struct(B).type ELSE IllFormed
u_int(B) == IF u_int_struct(B).tag = "type" THEN u_int_struct(B).type ELSE IllFormed

int_b_swapped(B, S) ==
  IF s_int(B) = IllFormed \/ u_int(B) = IllFormed THEN IllFormed
  ELSE IF S.signed THEN u_int(B) ELSE s_int(B)

\* std::conditional_t<is_signed_v<S>, s_int<B>, u_int<B>>: both alternatives
\* are named, so both must exist.
int_b(B, S) ==
  IF s_int(B) = IllFormed \/ u_int(B) = IllFormed THEN IllFormed
  ELSE IF S.signed THEN s_int(B) ELSE u_int(B)

\* The type fp::t<B, I, S>: its shape and the kind of its member `internal`.
t(B, I, S) ==
  IF ~(unsigned_integral(B) /\ signed_integral(I) /\ valid_sign(S)) THEN IllFormed
  ELSE IF int_b(B, S) = IllFormed THEN IllFormed
  ELSE [tag |-> "type", B |-> B, I |-> I, S |-> S, storage |-> int_b(B, S)]

----------------------------------------------------------------------------
(* Floating-point results: (-1)^neg * mant * 2^exp, mant odd or zero *)

Inc(b) ==
  Seal([i \in DOMAIN b |-> IF \A j \in DOMAIN b : j < i => b[j] = 1 THEN 1 - b[i] ELSE b[i]])
Negate(b) == Inc(Seal([i \in DOMAIN b |-> 1 - b[i]]))
Max(a, b) == IF a >= b THEN a ELSE b
Min(a, b) == IF a <= b THEN a ELSE b

\* The value of a 32-bit int as a model integer.
IntVal(b) == (SumBits(b, 30) - b[31] * Pow2(30)) - b[31] * Pow2(30)

\* m / 2^d rounded to nearest, ties to even.
RoundShift(m, d) ==
  LET q == ShiftRight(m, d, 0)
      half == d >= 1 /\ BitAt(m, d - 1) = 1
      sticky == \E j \in DOMAIN m : j < d - 1 /\ m[j] = 1
  IN  IF half /\ (sticky \/ q[0] = 1) THEN Inc(q) ELSE q

TrailingZeros(m) == CHOOSE i \in DOMAIN m : m[i] = 1 /\ \A j \in DOMAIN m : j < i => m[j] = 0

Normal(neg, m, e) ==
  IF m = Zero(64) THEN [tag |-> "finite", neg |-> neg, mant |-> m, exp |-> 0]
  ELSE [tag |-> "finite", neg |-> neg, mant |-> ShiftRight(m, TrailingZeros(m), 0),
        exp |-> e + TrailingZeros(m)]

\* IEEE 754 binary64 and binary32: precision, the exponent above the largest
\* finite value (2^max), the exponent of the smallest subnormal.
Binary64 == [p |-> 53, max |-> 1024, min |-> -1074]
Binary32 == [p |-> 24, max |-> 128, min |-> -149]

\* static_cast<double>(internal) / static_cast<float>(internal).
IntToFloating(fmt, b, signed) ==
  LET wide == Resize(b, signed, 64)
      neg == signed /\ wide[63] = 1
      mag == IF neg THEN Negate(wide) ELSE wide
      d == Max(BitWidth(mag) - fmt.p, 0)
  IN  Normal(neg, RoundShift(mag, d), d)

\* std::ldexp / std::ldexpf: x * 2^e, overflowing to infinity and rounding
\* once more where the result is subnormal.
ldexp(fmt, x, e) ==
  LET far == 4096
      exp == x.exp + Max(-far, Min(far, e))
      d == Max(fmt.min - exp, 0)
  IN  IF x.mant = Zero(64) THEN x
      ELSE IF BitWidth(x.mant) + exp > fmt.max THEN [tag |-> "inf", neg |-> x.neg]
      ELSE Normal(x.neg, RoundShift(x.mant, d), exp + d)

----------------------------------------------------------------------------
(* The conversions of fp::t *)

\* requires (static_cast<int>(I) == I): I, narrowed to int and brought back
\* to the common type of the comparison, is I.
IntRepresentable(I) ==
  LET w == Max(I.ty.w, 32)
  IN  Resize(Resize(I.bits, TRUE, 32), TRUE, w) = Resize(I.bits, TRUE, w)


operator_float(ty, v) ==
  IF ~IntRepresentable(ty.I) THEN IllFormed
  ELSE ldexp(Binary32, IntToFloating(Binary32, v, ty.storage.signed),
             IntVal(Resize(ty.I.bits, TRUE, 32)))

operator_double_unconstrained(ty, v) ==
  ldexp(Binary64, IntToFloating(Binary64, v, ty.storage.signed),
        IntVal(Resize(ty.I.bits, TRUE, 32)))

operator_double(ty, v) ==
  IF ~IntRepresentable(ty.I) THEN IllFormed
  ELSE ldexp(Binary64, IntToFloating(Binary64, v, ty.storage.signed),
             IntVal(Resize(ty.I.bits, TRUE, 32)))

----------------------------------------------------------------------------
(* std::to_string(double): "%f", six digits after the point *)

\* Decimal numbers are digit sequences, least significant digit first, of
\* at least one digit.
Digits(f) == SubSeq(f, 1, Len(f))

\* 2 * ds + c for c in {0, 1}: the carry into a digit is 1 exactly when the
\* digit below it is 5 or more.
DecTwicePlus(ds, c) ==
  LET n == Len(ds)
      m == IF ds[n] >= 5 THEN n + 1 ELSE n
  IN  Digits([i \in 1..m |->
        (2 * (IF i <= n THEN ds[i] ELSE 0)
           + (IF i = 1 THEN c ELSE IF ds[i - 1] >= 5 THEN 1 ELSE 0)) % 10])

DecPlusOne(ds) ==
  LET n == Len(ds)
      m == IF \A i \in 1..n : ds[i] = 9 THEN n + 1 ELSE n
  IN  Digits([i \in 1..m |->
        IF i > n THEN 1
        ELSE IF \A j \in 1..(i - 1) : ds[j] = 9 THEN (ds[i] + 1) % 10 ELSE ds[i]])

DecHalf(ds) ==
  Digits([i \in 1..Len(ds) |->
     (10 * (IF i < Len(ds) THEN ds[i + 1] % 2 ELSE 0) + ds[i]) \div 2])

\* The bits i, i-1, .., 0 of m appended to the number acc. (The test on acc
\* makes TLC compute acc before it recurses; a number has a digit.)
RECURSIVE DecOfBits(_, _, _)
DecOfBits(m, i, acc) ==
  IF i < 0 \/ Len(acc) = 0 THEN acc ELSE DecOfBits(m, i - 1, DecTwicePlus(acc, m[i]))

\* ds * 2^n, in runs of at most 32 doublings.
RECURSIVE DecTimesRun(_, _)
DecTimesRun(ds, n) ==
  IF n = 0 \/ Len(ds) = 0 THEN ds ELSE DecTimesRun(DecTwicePlus(ds, 0), n - 1)

RECURSIVE DecTimesPow2(_, _)
DecTimesPow2(ds, n) ==
  IF n <= 32 \/ Len(ds) = 0 THEN DecTimesRun(ds, n)
  ELSE DecTimesPow2(DecTimesRun(ds, 32), n - 32)

\* One halving of a number being rounded: rnd is the bit dropped last, sticky
\* tells whether a bit dropped before it was set.
HalfStep(h) == [ds |-> DecHalf(h.ds), rnd |-> h.ds[1] % 2, sticky |-> h.sticky \/ h.rnd = 1]

RECURSIVE HalfRun(_, _)
HalfRun(h, n) == IF n = 0 \/ Len(h.ds) = 0 THEN h ELSE HalfRun(HalfStep(h), n - 1)

RECURSIVE HalfTimes(_, _)
HalfTimes(h, n) ==
  IF n <= 32 \/ Len(h.ds) = 0 THEN HalfRun(h, n) ELSE HalfTimes(HalfRun(h, 32), n - 32)

\* ds / 2^n rounded to nearest, ties to even.
DecDivPow2(ds, n) ==
  LET h == HalfTimes([ds |-> ds, rnd |-> 0, sticky |-> FALSE], n)
  IN  IF h.rnd = 1 /\ (h.sticky \/ h.ds[1] % 2 = 1) THEN DecPlusOne(h.ds) ELSE h.ds

Digit == <<"0", "1", "2", "3", "4", "5", "6", "7", "8", "9">>

\* The digits hi, hi-1, .., lo of ds as characters.
Chars(ds, hi, lo) == Digits([i \in 1..(hi - lo + 1) |-> Digit[ds[hi + 1 - i] + 1]])

\* The highest position of ds that holds a nonzero digit, but at least lo.
Leading(ds, lo) ==
  LET nz == {i \in lo..Len(ds) : ds[i] # 0}
  IN  IF nz = {} THEN lo ELSE CHOOSE i \in nz : \A j \in nz : j <= i

to_string(x) ==
  IF x.tag = "inf"
  THEN [tag |-> "text", chars |-> (IF x.neg THEN <<"-">> ELSE <<>>) \o <<"i", "n", "f">>]
  ELSE
    LET micro == <<0, 0, 0, 0, 0, 0>> \o DecOfBits(x.mant, BitWidth(x.mant) - 1, <<0>>)
        units == IF x.exp >= 0 THEN DecTimesPow2(micro, x.exp) ELSE DecDivPow2(micro, -x.exp)
        top == Leading(units, 7)
    IN  [tag |-> "text",
         chars |-> (IF x.neg THEN <<"-">> ELSE <<>>)
                   \o Chars(units, top, 7)
                   \o <<".">> \o Chars(units, 6, 1)]

operator_string_unguarded(ty, v, nostr) ==
  IF nostr THEN IllFormed ELSE to_string(operator_double_unconstrained(ty, v))

\* operator std::string: declared without a requires-clause (unless FP_NOSTR
\* removes it), defined as std::to_string(operator double()).
operator_string(ty, v, nostr) ==
  IF nostr THEN IllFormed
  ELSE IF operator_double(ty, v) = IllFormed THEN IllFormed
  ELSE to_string(operator_double(ty, v))

----------------------------------------------------------------------------
(* from_int *)

\* std::abs as a constant expression (C++20, libstdc++ 12): the int
\* overload is evaluated as a built-in (narrower arguments are promoted to
\* int), except for the least int, whose magnitude overflows; the long
\* overload is not constexpr; an unsigned int or unsigned long argument is
\* ambiguous.
std_abs(I) ==
  LET v == Resize(I.bits, I.ty.signed, 32)
  IN  IF I.ty.w >= 32 /\ ~I.ty.signed THEN IllFormed
      ELSE IF I.ty.w > 32 THEN IllFormed
      ELSE IF v = OneHot(32, 31) THEN IllFormed
      ELSE Const(PlainInt, IF v[31] = 1 THEN Negate(v) ELSE v)

\* std::bit_width: only for unsigned types; libstdc++ 12 returns the
\* argument's type.
std_bit_width(a) ==
  IF a.ty.signed THEN IllFormed ELSE Const(a.ty, FromInt(BitWidth(a.bits), a.ty.w))

\* { .internal = I }: list-initialisation from a constant, ill-formed when
\* the constant does not fit the member's type (narrowing).
Fits(I, ty) ==
  LET w == Max(I.ty.w, ty.w) + 1
  IN  Resize(Resize(Resize(I.bits, I.ty.signed, ty.w), ty.signed, w), TRUE, w)
        = Resize(Resize(I.bits, I.ty.signed, w), TRUE, w)

\* from_int<I>: width and exponent arguments are both
\* byte_pow2_ceil(std::bit_width(std::abs(I))).
from_int(I) ==
  LET a == std_abs(I)
      bw == std_bit_width(a)
      B == byte_pow2_ceil_constant(bw)
      S == IF I.ty.signed /\ I.bits[I.ty.w - 1] = 1 THEN PlainInt ELSE UnsignedInt
      ty == t(B.value, B.value, S)
  IN  IF a = IllFormed \/ bw = IllFormed \/ B.tag # "returns" THEN IllFormed
      ELSE IF ty = IllFormed THEN IllFormed
      ELSE IF ~Fits(I, ty.storage) THEN IllFormed
      ELSE [tag |-> "value", ty |-> ty, internal |-> Resize(I.bits, I.ty.signed, ty.storage.w)]

----------------------------------------------------------------------------
(* Shapes, values and conversions as a state machine *)

\* Widths requested directly: every unsigned int up to MaxWidth, wider ones,
\* and the ladder's numbers with other types.
MaxWidth == 66

WidthArgs ==
  { Const(UnsignedInt, FromInt(n, 32)) : n \in 0..MaxWidth }
    \cup { Const(UnsignedInt, FromInt(128, 32)), Const(UnsignedInt, FromInt(256, 32)),
           Const(UnsignedInt, Ones(32)), Const(SizeT, OneHot(64, 63)),
           Const(SizeT, FromInt(8, 64)), Const(SizeT, FromInt(64, 64)),
           Const(SizeT, FromInt(65, 64)), Const(UInt(8), FromInt(8, 8)),
           Const(UInt(16), FromInt(16, 16)), Const(PlainInt, FromInt(8, 32)) }

\* Exponents: small ones of type int, the ends of int, and long constants
\* inside and outside the range of int.
MaxExp == 3

ExpArgs ==
  { Const(PlainInt, FromInt(e, 32)) : e \in (-MaxExp)..MaxExp }
    \cup { Const(PlainInt, FromInt(10, 32)), Const(PlainInt, FromInt(-40, 32)),
           Const(PlainInt, FromInt(2147483647, 32)),
           Const(PlainInt, OneHot(32, 31)),
           Const(SInt(8), FromInt(-1, 8)),
           Const(SInt(64), FromInt(-1, 64)),
           Const(SInt(64), FromInt(2147483647, 64)),
           Const(SInt(64), OneHot(64, 31)),
           Const(SInt(64), OneHot(64, 40)),
           Const(SInt(64), Resize(OneHot(32, 31), TRUE, 64)),
           Const(SInt(64), Negate(BitOr(OneHot(64, 31), OneHot(64, 0)))),
           Const(SInt(64), Negate(OneHot(64, 40))),
           Const(UnsignedInt, Zero(32)) }

SignArgs == {PlainInt, UnsignedInt, SInt(64)}

\* Stored integers of a w-bit kind.
MaxStored == 3

Stored(w) ==
  { FromInt(n, w) : n \in (-MaxStored)..MaxStored }
    \cup { OneHot(w, w - 1), BitOr(OneHot(w, w - 1), OneHot(w, 0)),
           ShiftRight(Ones(w), 1, 0), ShiftLeft(Ones(w), 1), OneHot(w, w - 2) }
    \cup (IF w >= 32 THEN { BitOr(OneHot(w, 24), OneHot(w, 0)), BitOr(OneHot(w, 25), FromInt(3, w)),
                            BitOr(OneHot(w, 25), OneHot(w, 0)) }
          ELSE {})
    \cup (IF w >= 64 THEN { BitOr(OneHot(w, 53), OneHot(w, 0)), BitOr(OneHot(w, 54), FromInt(3, w)),
                            BitOr(OneHot(w, 54), OneHot(w, 0)), OneHot(w, 53) }
          ELSE {})

\* Integer constants handed to from_int.
MaxLiteral == 6

LiteralArgs ==
  { Const(PlainInt, FromInt(n, 32)) : n \in (-MaxLiteral)..MaxLiteral }
    \cup { Const(PlainInt, FromInt(n, 32)) :
             n \in {-200, 200, -128, -129, 127, 128, 255, 256, 65535, 65536, 2147483647} }
    \cup { Const(PlainInt, OneHot(32, 31)), Const(SInt(64), OneHot(64, 40)),
           Const(SInt(64), Negate(OneHot(64, 40))), Const(SInt(64), OneHot(64, 63)),
           Const(SInt(64), BitOr(OneHot(64, 53), OneHot(64, 0))),
           Const(UnsignedInt, FromInt(5, 32)), Const(SizeT, FromInt(5, 64)),
           Const(UInt(8), FromInt(5, 8)), Const(UInt(16), FromInt(300, 16)),
           Const(SInt(8), FromInt(-5, 8)) }

\* fp::t<B, I, S> named with the arguments written out. The shape of a value
\* is part of its type: a behaviour names one shape and keeps it.
Define(B, I, S) ==
  /\ shape = None
  /\ shape' = [tag |-> "direct", B |-> B, I |-> I, S |-> S, ty |-> t(B, I, S)]
  /\ internal' = None
  /\ conv' = None
  /\ UNCHANGED <<fp_nostr, resolverVars, shiftVars>>

\* fp::t<byte_pow2_ceil(x), 0, S>, the width argument either the call's
\* std::size_t result or that result converted to unsigned int. A call that
\* never returns is no constant expression.
DefineResolved(x, cast, S) ==
  LET r == byte_pow2_ceil_constant(x)
      B == IF cast THEN Const(UnsignedInt, Resize(r.value.bits, FALSE, 32)) ELSE r.value
      I == Const(PlainInt, Zero(32))
  IN  /\ shape = None
      /\ shape' = [tag |-> "resolved", x |-> x, cast |-> cast, I |-> I, S |-> S,
                   B |-> IF r.tag = "returns" THEN B ELSE None,
                   ty |-> IF r.tag = "returns" THEN t(B, I, S) ELSE IllFormed]
      /\ internal' = None
      /\ conv' = None
      /\ UNCHANGED <<fp_nostr, resolverVars, shiftVars>>

\* Aggregate initialisation of the member `internal`; no operation of this
\* layer changes it afterwards.
AggregateInit ==
  /\ shape.tag \in {"direct", "resolved"}
  /\ shape.ty.tag = "type"
  /\ internal = None
  /\ \E v \in Stored(shape.ty.storage.w) : internal' = [tag |-> "value", bits |-> v]
  /\ conv' = None
  /\ UNCHANGED <<shape, fp_nostr, resolverVars, shiftVars>>

\* from_int<I>.
FromIntLiteral(I) ==
  LET r == from_int(I)
  IN  /\ shape = None
      /\ shape' = [tag |-> "from_int", lit |-> I,
                   ty |-> IF r.tag = "value" THEN r.ty ELSE IllFormed]
      /\ internal' = IF r.tag = "value" THEN [tag |-> "value", bits |-> r.internal] ELSE None
      /\ conv' = None
      /\ UNCHANGED <<fp_nostr, resolverVars, shiftVars>>

\* The explicit conversions. They read the value and leave it as it is; a
\* behaviour applies one of them.
ConvertToFloat ==
  /\ internal.tag = "value"
  /\ conv = None
  /\ conv' = [tag |-> "float", result |-> operator_float(shape.ty, internal.bits)]
  /\ UNCHANGED <<shape, internal, fp_nostr, resolverVars, shiftVars>>

ConvertToDouble ==
  /\ internal.tag = "value"
  /\ conv = None
  /\ conv' = [tag |-> "double", result |-> operator_double(shape.ty, internal.bits)]
  /\ UNCHANGED <<shape, internal, fp_nostr, resolverVars, shiftVars>>

ConvertToString ==
  /\ internal.tag = "value"
  /\ conv = None
  /\ conv' = [tag |-> "string", result |-> operator_string(shape.ty, internal.bits, fp_nostr)]
  /\ UNCHANGED <<shape, internal, fp_nostr, resolverVars, shiftVars>>

ShapeNext ==
  \/ \E B \in WidthArgs, I \in ExpArgs, S \in SignArgs : Define(B, I, S)
  \/ \E x \in ResolverArgs, cast \in BOOLEAN, S \in SignArgs : DefineResolved(x, cast, S)
  \/ AggregateInit
  \/ \E I \in LiteralArgs : FromIntLiteral(I)
  \/ ConvertToFloat
  \/ ConvertToDouble
  \/ ConvertToString

----------------------------------------------------------------------------
(* rshift, lshift *)

\* The type deduced for T from the parameter T&& v: the operand's type for
\* an rvalue argument, an lvalue reference to it for an lvalue argument.
Deduce(ty, cat) == [ty |-> ty, ref |-> cat = "lvalue"]

\* std::integral<T>: no reference type is an integral type.
std_integral(T) == ~T.ref

\* Integral promotion: an operand narrower than int becomes an int.
Promote(ty) == IF ty.w < 32 THEN PlainInt ELSE ty
Promoted(a) == Const(Promote(a.ty), Resize(a.bits, a.ty.signed, Promote(a.ty).w))

\* shift_amt < 0
IsNegative(a) == a.ty.signed /\ a.bits[a.ty.w - 1] = 1

\* -shift_amt, in the promoted type of shift_amt. Negating the least value
\* of a signed type overflows; the pattern is then the operand's own (what
\* the compilers fold it to), a negative amount.
Minus(a) == Const(Promote(a.ty), Negate(Promoted(a).bits))

\* The built-in shifts are defined for amounts 0 <= amt < w, w the width of
\* the promoted left operand.
Defined(amt, w) == ~IsNegative(amt) /\ ULess(amt.bits, FromInt(w, 32))

\* The amount a shift instruction uses: the low 5 or 6 bits of the count.
Masked(amt, w) == UVal([i \in 0..(IF w = 64 THEN 5 ELSE 4) |-> amt.bits[i]])

\* v << amt, v >> amt on the promoted operand v: modulo 2^w to the left,
\* with the sign repeated (signed) or zeros (unsigned) to the right. An
\* amount the shift is not defined for is undefined behaviour: the builds
\* give the shift by the masked count (shift instruction), the shift of
\* every bit out of the word (constant folding), for a negative amount the
\* shift the other way by its magnitude (constant folding; the magnitude of
\* a negative amount reaching here is at least w), or no program at all
\* (constant evaluation).
builtin_shift(dir, v, amt) ==
  LET w == v.ty.w
      fill == IF v.ty.signed THEN v.bits[w - 1] ELSE 0
      by(n) == Const(v.ty, IF dir = "left" THEN ShiftLeft(v.bits, n)
                            ELSE ShiftRight(v.bits, n, fill))
      back(n) == Const(v.ty, IF dir = "left" THEN ShiftRight(v.bits, n, fill)
                              ELSE ShiftLeft(v.bits, n))
  IN  IF Defined(amt, w) THEN { by(UVal(amt.bits)) }
      ELSE { by(Masked(amt, w)), by(w), IllFormed }
             \cup (IF IsNegative(amt) THEN { back(w) } ELSE {})

\* return <shift> from a function returning T: the result of the built-in
\* shift converted to T (modulo 2^width of T).
Returned(T, dir, v, amt) ==
  { [out |-> IF r = IllFormed THEN IllFormed
             ELSE [tag |-> "value", ty |-> T, bits |-> Resize(r.bits, r.ty.signed, T.w)],
     prim |-> [tag |-> "shift", dir |-> dir, amt |-> amt]] :
    r \in builtin_shift(dir, v, amt) }

NotCallable == { [out |-> IllFormed, prim |-> None] }

rshift_swapped(shift_amt, v, cat) ==
  IF ~std_integral(Deduce(v.ty, cat)) THEN NotCallable
  ELSE IF IsNegative(shift_amt) THEN Returned(v.ty, "right", Promoted(v), Minus(shift_amt))
  ELSE Returned(v.ty, "left", Promoted(v), Promoted(shift_amt))

\* rshift<shift_amt>(v): the set of results the call can have.
rshift(shift_amt, v, cat) ==
  IF ~std_integral(Deduce(v.ty, cat)) THEN NotCallable
  ELSE IF IsNegative(shift_amt) THEN Returned(v.ty, "left", Promoted(v), Minus(shift_amt))
  ELSE Returned(v.ty, "right", Promoted(v), Promoted(shift_amt))

lshift_as_rshift(shift_amt, v, cat) ==
  IF ~std_integral(Deduce(v.ty, cat)) THEN NotCallable
  ELSE IF IsNegative(shift_amt) THEN Returned(v.ty, "left", Promoted(v), Minus(shift_amt))
  ELSE Returned(v.ty, "right", Promoted(v), Promoted(shift_amt))

lshift_same_amount(shift_amt, v, cat) ==
  IF ~std_integral(Deduce(v.ty, cat)) THEN NotCallable
  ELSE IF IsNegative(shift_amt) THEN Returned(v.ty, "right", Promoted(v), Promoted(shift_amt))
  ELSE Returned(v.ty, "left", Promoted(v), Promoted(shift_amt))

\* lshift<shift_amt>(v): the set of results the call can have.
lshift(shift_amt, v, cat) ==
  IF ~std_integral(Deduce(v.ty, cat)) THEN NotCallable
  ELSE IF IsNegative(shift_amt) THEN Returned(v.ty, "right", Promoted(v), Minus(shift_amt))
  ELSE Returned(v.ty, "left", Promoted(v), Promoted(shift_amt))

\* The template argument -k a caller writes: a constant expression, so
\* ill-formed where the negation overflows a signed type.
TemplateMinus(k) ==
  IF IsNegative(Promoted(k)) /\ Minus(k).bits = Promoted(k).bits THEN IllFormed ELSE Minus(k)

----------------------------------------------------------------------------
(* Calls of the shift primitives as a state machine *)

\* Amounts: every int whose magnitude exceeds the promoted operand's width
\* by at most MaxOver, the least int, and amounts of other integral types.
MaxOver == 1

ShiftAmounts(ty) ==
  { Const(PlainInt, FromInt(k, 32)) :
      k \in (-(Promote(ty).w + MaxOver))..(Promote(ty).w + MaxOver) }
    \cup { Const(PlainInt, OneHot(32, 31)),
           Const(UnsignedInt, FromInt(1, 32)), Const(UnsignedInt, FromInt(32, 32)),
           Const(SInt(64), FromInt(2, 64)), Const(SInt(64), FromInt(-2, 64)),
           Const(SInt(64), OneHot(64, 63)), Const(SInt(8), FromInt(-3, 8)),
           Const(UInt(8), FromInt(3, 8)) }

OperandTypes == { UInt(8), SInt(8), UInt(16), SInt(16), UInt(32), SInt(32), UInt(64), SInt(64) }

\* Operands of a type: 0, 1, -1, a mixed pattern, the top bit alone, all
\* but the top bit, and the upper half.
Operands(ty) ==
  { Const(ty, b) :
      b \in { FromInt(n, ty.w) : n \in {0, 1, -1, 90} }
              \cup { OneHot(ty.w, ty.w - 1), ShiftRight(Ones(ty.w), 1, 0),
                     ShiftLeft(Ones(ty.w), ty.w \div 2) } }

\* |k| as a 64-bit pattern.
Magnitude(k) ==
  IF IsNegative(k) THEN Negate(Resize(k.bits, TRUE, 64)) ELSE Resize(k.bits, k.ty.signed, 64)

\* The operand whose set bits are exactly those at positions >= |k|.
Aligned(ty, k) ==
  IF BitWidth(Magnitude(k)) <= 7 /\ UVal(Magnitude(k)) < ty.w
  THEN { Const(ty, ShiftLeft(Ones(ty.w), UVal(Magnitude(k)))) } ELSE {}

Called(f, k, v, cat, lhs, rhs) ==
  [tag |-> "call", f |-> f, k |-> k, v |-> v, cat |-> cat, lhs |-> lhs, rhs |-> rhs]

\* rshift<k>(v)
Rshift ==
  /\ call = None
  /\ \E ty \in OperandTypes, cat \in {"prvalue", "lvalue"} :
       \E k \in ShiftAmounts(ty), v \in Operands(ty) :
         \E r \in rshift(k, v, cat) :
           /\ call' = Called("rshift", k, v, cat, None, None)
           /\ out' = r.out
           /\ prim' = r.prim
  /\ UNCHANGED <<resolverVars, shapeVars>>

\* lshift<k>(v)
Lshift ==
  /\ call = None
  /\ \E ty \in OperandTypes, cat \in {"prvalue", "lvalue"} :
       \E k \in ShiftAmounts(ty), v \in Operands(ty) :
         \E r \in lshift(k, v, cat) :
           /\ call' = Called("lshift", k, v, cat, None, None)
           /\ out' = r.out
           /\ prim' = r.prim
  /\ UNCHANGED <<resolverVars, shapeVars>>

\* lshift<k>(rshift<k>(v)): the inner call's result is the outer call's
\* (rvalue) operand.
RoundTrip ==
  /\ call = None
  /\ \E ty \in OperandTypes :
       \E k \in ShiftAmounts(ty) :
         \E v \in Operands(ty) \cup Aligned(ty, k) :
           \E r \in rshift(k, v, "prvalue") :
             IF r.out = IllFormed
             THEN /\ call' = Called("roundtrip", k, v, "prvalue", r.out, None)
                  /\ out' = IllFormed
                  /\ prim' = r.prim
             ELSE \E q \in lshift(k, Const(r.out.ty, r.out.bits), "prvalue") :
                    /\ call' = Called("roundtrip", k, v, "prvalue", r.out, None)
                    /\ out' = q.out
                    /\ prim' = q.prim
  /\ UNCHANGED <<resolverVars, shapeVars>>

\* rshift<k>(v) == lshift<-k>(v) for f = "rshift", lshift<k>(v) ==
\* rshift<-k>(v) for f = "lshift"; v is written as an rvalue on both sides.
Mirror ==
  /\ call = None
  /\ \E f \in {"rshift", "lshift"}, ty \in OperandTypes :
       \E k \in ShiftAmounts(ty), v \in Operands(ty) :
         LET m == TemplateMinus(k)
             L == IF f = "rshift" THEN rshift(k, v, "prvalue") ELSE lshift(k, v, "prvalue")
             R == IF m = IllFormed THEN NotCallable
                  ELSE IF f = "rshift" THEN lshift(m, v, "prvalue")
                  ELSE rshift(m, v, "prvalue")
         IN  \E l \in L, r \in R :
               /\ call' = Called(IF f = "rshift" THEN "rshift_eq" ELSE "lshift_eq",
                                 k, v, "prvalue", l.out, r.out)
               /\ out' = IF l.out = IllFormed \/ r.out = IllFormed THEN IllFormed
                         ELSE [tag |-> "bool", value |-> l.out.bits = r.out.bits]
               /\ prim' = r.prim
  /\ UNCHANGED <<resolverVars, shapeVars>>

ShiftNext ==
  \/ Rshift
  \/ Lshift
  \/ RoundTrip
  \/ Mirror

----------------------------------------------------------------------------
ShapeInit == shape = None /\ internal = None /\ conv = None /\ fp_nostr = FALSE
ShapeInitAny == shape = None /\ internal = None /\ conv = None /\ fp_nostr \in BOOLEAN
ShiftInit == call = None /\ out = None /\ prim = None

Init == ResolverInit /\ ShapeInit /\ ShiftInit

InitShape == ResolverInit /\ ShapeInitAny /\ ShiftInit

SpecShape == InitShape /\ [][ShapeNext]_vars

SpecResolver == Init /\ [][ResolverNext]_vars

SpecShift == Init /\ [][ShiftNext]_vars

\* Sequential code runs on: a loop that can take its next turn, or return,
\* does.
SpecResolverFair == SpecResolver /\ WF_vars(ResolveStep) /\ WF_vars(ResolveReturn)

----------------------------------------------------------------------------
(* Claims about the resolver *)

C1_Ladder == {8, 16, 32, 64}
C1_Least(n) == CHOOSE m \in C1_Ladder : m >= n /\ \A k \in C1_Ladder : k >= n => m <= k
C1_Small(b) == BitWidth(b) <= 7 /\ UVal(b) <= 64

\* C1: for every request B <= 64 a completed byte_pow2_ceil(B) returned the
\* smallest of 8, 16, 32, 64 that is >= B (so a ladder member, >= B), and of
\* two completed calls with requests <= 64 the one with the smaller request
\* returned the smaller or equal width.
C1_ResolverCeil ==
  (rpc = "done" /\ C1_Small(rx.bits)) =>
    /\ C1_Small(rc)
    /\ UVal(rc) = C1_Least(UVal(rx.bits))
    /\ UVal(rc) \in C1_Ladder /\ UVal(rc) >= UVal(rx.bits)
    /\ (rprev.tag = "call" /\ C1_Small(rprev.x.bits)) =>
         /\ C1_Small(rprev.r)
         /\ UVal(rprev.x.bits) <= UVal(rx.bits) => UVal(rprev.r) <= UVal(rc)
         /\ UVal(rx.bits) <= UVal(rprev.x.bits) => UVal(rc) <= UVal(rprev.r)

C1_Witness ==
  /\ rpc = "done" /\ C1_Small(rx.bits) /\ UVal(rx.bits) = 33 /\ UVal(rc) = 64
  /\ rprev.tag = "call" /\ C1_Small(rprev.x.bits) /\ UVal(rprev.x.bits) = 9
  /\ UVal(rprev.r) = 16

\* C10: every call of byte_pow2_ceil, whatever its unsigned argument,
\* leaves the loop and returns (in every build).
C10_Terminates == (rpc = "loop") ~> (rpc \in {"done", "done_indeterminate"})

\* The terminating calls: the loop is left before the candidate wraps.
C10_WrapsOnlyAboveTopBit ==
  (rpc = "loop" /\ rc = Zero(64)) => ULess(OneHot(64, 63), rx.bits)

----------------------------------------------------------------------------
(* Claims about shapes, values and conversions *)

C2_Requested ==
  /\ shape.tag = "direct"
  /\ unsigned_integral(shape.B) /\ signed_integral(shape.I) /\ valid_sign(shape.S)
  /\ C1_Small(shape.B.bits) /\ UVal(shape.B.bits) >= 1

\* C2 as claimed: every shape (B, I, S) with 1 <= B <= 64 is accepted, its
\* stored integer of signedness S and of the smallest ladder width >= B.
C2_EveryWidthAccepted ==
  C2_Requested =>
    /\ shape.ty.tag = "type"
    /\ shape.ty.storage.signed = shape.S.signed
    /\ shape.ty.storage.w = C1_Least(UVal(shape.B.bits))

\* C2 as amended: of the shapes (B, I, S) with 1 <= B <= 64 exactly those
\* with B one of 8U, 16U, 32U, 64U (an unsigned int constant) are accepted,
\* and then the stored integer has signedness S and width B, which is the
\* smallest ladder width >= B.
C2_LadderWidthsAccepted ==
  C2_Requested =>
    /\ shape.ty.tag = "type"
         <=> (shape.B.ty = UnsignedInt /\ UVal(shape.B.bits) \in C1_Ladder)
    /\ shape.ty.tag = "type" =>
         /\ shape.ty.storage.signed = shape.S.signed
         /\ shape.ty.storage.w = UVal(shape.B.bits)
         /\ shape.ty.storage.w = C1_Least(UVal(shape.B.bits))
         /\ internal.tag = "value" => Width(internal.bits) = shape.ty.storage.w

C2_Witness ==
  /\ C2_Requested /\ UVal(shape.B.bits) = 16 /\ shape.S = UnsignedInt
  /\ shape.ty.tag = "type" /\ shape.ty.storage = UInt(16)
  /\ internal.tag = "value" /\ internal.bits = Ones(16)

C3_Magnitude(lit) ==
  IF lit.ty.signed /\ lit.bits[lit.ty.w - 1] = 1
  THEN Negate(Resize(lit.bits, TRUE, 64)) ELSE Resize(lit.bits, lit.ty.signed, 64)
C3_Negative(lit) == lit.ty.signed /\ lit.bits[lit.ty.w - 1] = 1

\* C3: for every constant n with |n| < 2^63, from_int<n> is a value with
\* exponent 0 whose conversion to double is exactly n.
C3_LiteralExact ==
  (shape.tag = "from_int" /\ BitWidth(C3_Magnitude(shape.lit)) <= 63) =>
    /\ shape.ty.tag = "type"
    /\ shape.ty.I.bits = Zero(shape.ty.I.ty.w)
    /\ internal.tag = "value"
    /\ operator_double(shape.ty, internal.bits)
         = Normal(C3_Negative(shape.lit), C3_Magnitude(shape.lit), 0)

\* C4: for every constant n, from_int<n> has the storage width the resolver
\* gives for the bit width of |n|, is signed exactly when n < 0, and stores n.
C4_LiteralStored ==
  shape.tag = "from_int" =>
    /\ shape.ty.tag = "type"
    /\ shape.ty.storage.w = C1_Least(BitWidth(C3_Magnitude(shape.lit)))
    /\ shape.ty.storage.signed = C3_Negative(shape.lit)
    /\ internal.tag = "value"
    /\ Resize(Resize(internal.bits, shape.ty.storage.signed, 65), TRUE, 65)
         = Resize(Resize(shape.lit.bits, shape.lit.ty.signed, 65), TRUE, 65)

C8_Above64(b) == ULess(FromInt(64, 64), b)

\* C8: a width above 64 yields no storage kind and no value, whether it is
\* written as the shape's width or passed through byte_pow2_ceil first.
C8_Above64Rejected ==
  /\ (shape.tag = "direct" /\ unsigned_integral(shape.B) /\ C8_Above64(shape.B.bits)) =>
       (shape.ty = IllFormed /\ internal = None)
  /\ (shape.tag = "resolved" /\ C8_Above64(shape.x.bits)) =>
       (shape.ty = IllFormed /\ internal = None)

C8_Witness ==
  /\ shape.tag = "resolved" /\ shape.cast /\ shape.x = Const(UnsignedInt, FromInt(65, 32))
  /\ shape.B = Const(UnsignedInt, FromInt(128, 32))
  /\ shape.ty = IllFormed

\* The exponent's value lies in the range of int.
C9_FitsInt(I) == \A i \in DOMAIN I.bits : i >= 31 => I.bits[i] = I.bits[31]

\* C9 as claimed: with text support compiled in, the text conversion is
\* there for every accepted shape.
C9_TextUnconditional ==
  (conv.tag = "string" /\ ~fp_nostr) => conv.result.tag = "text"

\* C9 as amended: with text support compiled in, the text conversion is
\* there exactly for the accepted shapes whose exponent an int can hold, as
\* the float and double conversions are; for the others its use is
\* ill-formed.
C9_TextNeedsDouble ==
  /\ (conv.tag = "string" /\ ~fp_nostr) =>
       /\ conv.result.tag = "text" <=> C9_FitsInt(shape.ty.I)
       /\ conv.result.tag # "text" => conv.result = IllFormed
  /\ conv.tag \in {"float", "double"} =>
       (conv.result # IllFormed <=> C9_FitsInt(shape.ty.I))

C9_Witness ==
  /\ conv.tag = "string" /\ ~fp_nostr
  /\ shape.ty.tag = "type" /\ shape.ty.I = Const(SInt(64), OneHot(64, 40))
  /\ conv.result = IllFormed

----------------------------------------------------------------------------
(* Claims about the shift primitives *)

\* |k| <= n, |k| < n
C5_Within(k, n) == ~ULess(FromInt(n, 64), Magnitude(k))
C5_Below(k, n) == ULess(Magnitude(k), FromInt(n, 64))

\* v shifted right / left by n within its own kind: to the right the sign
\* of a signed v repeats and an unsigned v gets zeros, to the left the bits
\* leaving the kind are lost.
C5_ShiftedRight(v, n) ==
  [i \in 0..(v.ty.w - 1) |->
     IF i + n < v.ty.w THEN v.bits[i + n] ELSE IF v.ty.signed THEN v.bits[v.ty.w - 1] ELSE 0]
C5_ShiftedLeft(v, n) == [i \in 0..(v.ty.w - 1) |-> IF i >= n THEN v.bits[i - n] ELSE 0]

C5_GoesRight(f, k) == (f = "rshift") <=> ~IsNegative(k)

\* The same as arithmetic, for kinds of at most 16 bits: floor(v / 2^n) to
\* the right, v * 2^n modulo 2^width to the left.
C5_Arithmetic(f, k, v, r) ==
  LET n == UVal(Magnitude(k))
  IN  (v.ty.w <= 16 /\ n <= 14) =>
        IF C5_GoesRight(f, k)
        THEN (IF v.ty.signed THEN SVal(r) = SVal(v.bits) \div Pow2(n)
              ELSE UVal(r) = UVal(v.bits) \div Pow2(n))
        ELSE UVal(r) = (UVal(v.bits) * Pow2(n)) % Pow2(v.ty.w)

C5_DirectionBySign ==
  /\ out.tag = "value" /\ out.ty = call.v.ty
  /\ out.bits = IF C5_GoesRight(call.f, call.k)
                THEN C5_ShiftedRight(call.v, UVal(Magnitude(call.k)))
                ELSE C5_ShiftedLeft(call.v, UVal(Magnitude(call.k)))
  /\ C5_Arithmetic(call.f, call.k, call.v, out.bits)
  /\ prim.tag = "shift" /\ ~IsNegative(prim.amt)
  /\ prim.dir = IF C5_GoesRight(call.f, call.k) THEN "right" ELSE "left"

C5_Call == call.tag = "call" /\ call.f \in {"rshift", "lshift"} /\ call.cat = "prvalue"

\* C5 as claimed: for every operand v and amount k with |k| <= the width of
\* v, rshift<k>(v) is v shifted right by k (k >= 0) or left by |k| (k < 0),
\* lshift<k>(v) the mirror, and the built-in shift executed has a
\* non-negative amount.
C5_WithinOperandWidth ==
  (C5_Call /\ C5_Within(call.k, call.v.ty.w)) => C5_DirectionBySign

\* C5 as amended: the same for |k| <= the width of v and smaller than the
\* width of the promoted operand (32 bits for an operand narrower than int).
C5_BelowPromotedWidth ==
  (C5_Call /\ C5_Within(call.k, call.v.ty.w) /\ C5_Below(call.k, Promote(call.v.ty).w))
    => C5_DirectionBySign

C5_Witness ==
  /\ C5_Call /\ call.f = "rshift"
  /\ call.k = Const(PlainInt, FromInt(-2, 32)) /\ call.v = Const(PlainInt, FromInt(1, 32))
  /\ out.tag = "value" /\ out.bits = FromInt(4, 32)
  /\ prim.dir = "left" /\ prim.amt = Const(PlainInt, FromInt(2, 32))

C6_Call == call.tag = "call" /\ call.f \in {"rshift_eq", "lshift_eq"}

\* C6 as claimed: rshift<k>(v) == lshift<-k>(v) and lshift<k>(v) ==
\* rshift<-k>(v) for every operand v and every amount k.
C6_MirrorForEveryAmount ==
  C6_Call => out = [tag |-> "bool", value |-> TRUE]

\* C6 as amended: the two equalities hold for every operand v and every
\* amount k of a signed type with |k| smaller than the width of the
\* promoted operand.
C6_MirrorBelowPromotedWidth ==
  (C6_Call /\ call.k.ty.signed /\ C5_Below(call.k, Promote(call.v.ty).w)) =>
    /\ out = [tag |-> "bool", value |-> TRUE]
    /\ call.lhs.tag = "value" /\ call.lhs = call.rhs
    /\ call.lhs.bits =
         IF C5_GoesRight(IF call.f = "rshift_eq" THEN "rshift" ELSE "lshift", call.k)
         THEN C5_ShiftedRight(call.v, UVal(Magnitude(call.k)))
         ELSE C5_ShiftedLeft(call.v, UVal(Magnitude(call.k)))

C6_Witness ==
  /\ C6_Call /\ call.f = "rshift_eq"
  /\ call.k = Const(PlainInt, FromInt(3, 32)) /\ call.v = Const(SInt(8), OneHot(8, 7))
  /\ call.lhs.tag = "value" /\ call.lhs.bits = FromInt(-16, 8)
  /\ out = [tag |-> "bool", value |-> TRUE]

C7_LowBitsZero(v, k) ==
  \A i \in DOMAIN v.bits : ULess(FromInt(i, 64), Magnitude(k)) => v.bits[i] = 0

\* C7: for every operand v of an 8/16/32/64-bit kind and every k with
\* 0 <= k < the width of v such that the k low bits of v are zero,
\* lshift<k>(rshift<k>(v)) == v, both results in the kind of v.
C7_RoundTrip ==
  (/\ call.tag = "call" /\ call.f = "roundtrip"
   /\ ~IsNegative(call.k) /\ C5_Below(call.k, call.v.ty.w)
   /\ C7_LowBitsZero(call.v, call.k)) =>
    /\ call.lhs.tag = "value" /\ call.lhs.ty = call.v.ty
    /\ out.tag = "value" /\ out.ty = call.v.ty
    /\ out.bits = call.v.bits

C7_Witness ==
  /\ call.tag = "call" /\ call.f = "roundtrip"
  /\ call.k = Const(PlainInt, FromInt(7, 32)) /\ call.v = Const(SInt(8), OneHot(8, 7))
  /\ call.lhs.tag = "value" /\ call.lhs.bits = Ones(8)
  /\ out.tag = "value" /\ out.bits = OneHot(8, 7)

====
